---- MODULE Spec2Model ----
(***************************************************************************)
(* Device-code authentication engine of inbox-zero:                        *)
(*   apps/web/utils/outlook/msal-device-code.ts   (flow registry,          *)
(*       initiateDeviceCodeFlow, pollDeviceCodeFlow, cancelDeviceCodeFlow) *)
(*   app/api/auth/msal/device-code/poll route     (POST, completion cache) *)
(*   app/api/outlook/calendar/device-code-connect (token acquisition)      *)
(*                                                                         *)
(* Time is counted in units of five minutes: the completion-cache TTL,    *)
(* the stored-token safety buffer and the sweep interval are one unit,     *)
(* the lifetime of a device code is whatever the provider answers.         *)
(*                                                                         *)
(* The server is a single JavaScript event loop.  An action of the model   *)
(* is one macrotask together with the promise continuations (microtasks)   *)
(* it triggers: code between two awaits on I/O or timers runs atomically,  *)
(* and settling a promise runs the continuations of everything awaiting    *)
(* it, in registration order, before the next macrotask.                   *)
(***************************************************************************)
EXTENDS Integers, FiniteSets, Sequences, TLC

\* ---------------------------------------------------------------- bounds
Sessions == {"s1", "s2"}
MaxInit == 2
MaxPoll == 3
MaxOps == 4
\* the same budget in the specification of the registry with its count
MaxOpsRegistry == 3
\* and in the specification of the registry as time goes on
MaxOpsSweep == 3
MaxTime == 2

Calls == 1..MaxInit
Pollers == 1..MaxPoll

\* ------------------------------------------------------------- constants
\* 5 * 60 * 1000 ms, one time unit
COMPLETION_CACHE_TTL_MS == 1
\* response.expiresIn, the lifetime the provider gives a device code (900 s
\* at the provider): at least one unit, so no shorter than a completion entry
MaxExpiresIn == 1
ExpiresIn == 1..MaxExpiresIn
\* Date.now() + 5 * 60 * 1000: the buffer of the stored-token check
FIVE_MIN_BUFFER == 1
\* the latest expires_at a stored account record starts with
MaxExpiry == 4
\* the most entries in the RefreshToken section of a stored cache
MaxEntries == 2
\* result.expiresOn || Date.now() + 3_600_000: one hour
TOKEN_LIFETIME == 12

VARIABLES
  now,              \* Date.now(), in units of 5 minutes
  enabled,          \* env.MSAL_ENABLED === "true"
  calls,            \* one record per initiateDeviceCodeFlow call
  flows,            \* the ActiveFlow objects, named by the call that made them
  activeFlows,      \* Map sessionId -> ActiveFlow
  polls,            \* one record per poll request (POST)
  completionCache,  \* Map sessionId -> CompletionEntry
  comps,            \* completeDeviceCodeAuthentication runs, by poller
  account,          \* prisma account record of the authenticated account
  cancelled,        \* history: cancel returned true, no initiate or poll since
  chain             \* last answer of the token acquisition chain

vars == <<now, enabled, calls, flows, activeFlows, polls, completionCache,
          comps, account, cancelled, chain>>

flowVars == <<enabled, calls, flows, activeFlows, polls, completionCache,
              comps, cancelled>>

Max(S) == CHOOSE x \in S : \A y \in S : y <= x

\* ------------------------------------------------------------ flow state
NoCall ==
  [pc |-> "idle", sid |-> "s1", captured |-> FALSE, auth |-> "none",
   wired |-> 0]

\* flowPromise (slot) and expiresAt of an ActiveFlow
NoFlow == [slot |-> "unset", expiresAt |-> 0]

NoPoll ==
  [pc |-> "idle", sid |-> "s1", flow |-> 0, entry |-> 0, status |-> "none",
   err |-> "none", branch |-> "none", seen |-> {}, afterCancel |-> FALSE,
   sawResolved |-> FALSE, sawFilled |-> FALSE]

NoEntry == [comp |-> 0, expiresAt |-> 0]

NoComp == [st |-> "none", flow |-> 0]

\* one entry of the RefreshToken section of a serialized MSAL cache: whether
\* its key contains the account id, whether its home_account_id does, and
\* its secret ("none" for an entry without one)
Secrets == {"none", "r1", "r2"}
TokenEntries == [key : BOOLEAN, home : BOOLEAN, secret : Secrets]

\* the prisma account row and, in msal, whether the in-memory cache of the
\* MSAL application knows the account.  expires_at = -1 stands for null;
\* msal_cache is the stored ciphertext of the serialized cache and
\* RefreshToken the entries that ciphertext carries.  foreign: whether the
\* in-memory cache of the one MSAL application of the process also holds
\* the credentials of another account that has signed in
NoAccount == [access_token |-> "none", expires_at |-> -1, msal |-> FALSE,
              msal_cache |-> "none", RefreshToken |-> <<>>,
              foreign |-> FALSE]

\* the answer of the token step: which strategy answered, the token handed
\* on, whether acquireMSALTokenSilent was called, and Date.now() of the call
NoChain == [result |-> "none", token |-> "none", silent |-> FALSE, at |-> 0]

isMSALDeviceCodeEnabledAlways == TRUE

\* isMSALDeviceCodeEnabled: the feature flag
isMSALDeviceCodeEnabled == enabled

FlowExpiredNever(f) == FALSE

FlowExpiredUnfilled(f) == now > flows[f].expiresAt /\ flows[f].slot = "unset"

\* new Date() > flow.expiresAt, for the flow made by call f
FlowExpired(f) == now > flows[f].expiresAt

cleanupExpiredFlowsNone(af) == af

cleanupExpiredFlowsAll(af) == [s \in Sessions |-> 0]

\* cleanupExpiredFlows applied to the map af
cleanupExpiredFlows(af) ==
  [s \in Sessions |->
     IF af[s] # 0 /\ FlowExpired(af[s]) THEN 0 ELSE af[s]]

cleanupCompletionCacheAll(cc) == [s \in Sessions |-> NoEntry]

\* cleanupCompletionCache applied to the map cc
cleanupCompletionCache(cc) ==
  [s \in Sessions |->
     IF cc[s].comp # 0 /\ cc[s].expiresAt <= now THEN NoEntry ELSE cc[s]]

HasSessionNever(af, s) == FALSE

\* activeFlows.has(sessionId)
HasSession(af, s) == af[s] # 0

ClassifyPendingTerminal(o) ==
  CASE o = "result" -> "complete"
    [] OTHER -> "error"

ClassifyNullComplete(o) ==
  CASE o = "result" -> "complete"
    [] o = "null" -> "complete"
    [] o = "errPending" -> "pending"
    [] OTHER -> "error"

ClassifyResultPending(o) ==
  CASE o = "result" -> "pending"
    [] o = "null" -> "error"
    [] o = "errPending" -> "pending"
    [] OTHER -> "error"

\* pollDeviceCodeFlow after the race was won by the flow promise:
\* the PollResult status for the settled value o of the promise
Classify(o) ==
  CASE o = "result" -> "complete"
    [] o = "null" -> "error"
    [] o = "errPending" -> "pending"
    [] OTHER -> "error"

\* the error string of the PollResult
ErrorOf(o) ==
  CASE o = "null" -> "No authentication result"
    [] o = "errOther" -> "provider error"
    [] o = "cancelled" -> "Flow cancelled by user"
    [] OTHER -> "none"

\* session ids are interchangeable: the first one a request names is "s1"
InOrder(s) ==
  \/ s = "s1"
  \/ \E c \in Calls : calls[c].pc # "idle" /\ calls[c].sid = "s1"
  \/ \E p \in Pollers : polls[p].pc # "idle" /\ polls[p].sid = "s1"

\* requests begun so far: initiate calls and polls
OpsBegun ==
  Cardinality({c \in Calls : calls[c].pc # "idle"})
    + Cardinality({p \in Pollers : polls[p].pc # "idle"})

\* pollers suspended in Promise.race on the promise of flow f
Racers(f) == {p \in Pollers : polls[p].pc = "racing" /\ polls[p].flow = f}

AnswerNever(rec, status, err) == rec

\* the answer of a poll request: what stays of its record once it returned
Answer(rec, status, err) ==
  [NoPoll EXCEPT !.pc = "done", !.sid = rec.sid, !.entry = rec.entry,
                 !.branch = rec.branch, !.status = status, !.err = err]

\* respondWithCompletionPromise once the completion promise k has settled
Respond(rec, k, st) ==
  IF st = "ok"
  THEN Answer([rec EXCEPT !.entry = k], "complete", "none")
  ELSE Answer([rec EXCEPT !.entry = k], "error", "completion failed")

\* POST after pollDeviceCodeFlow returned for poller p, whose record is
\* rec, when the flow promise had settled with o: on a result the poller
\* starts completion p and awaits it, otherwise it answers at once
Continue(rec, p, o) ==
  IF Classify(o) = "complete"
  THEN [rec EXCEPT !.pc = "awaiting", !.entry = p, !.flow = 0]
  ELSE Answer(rec, Classify(o), ErrorOf(o))

FlowNotFoundPending(rec) ==
  Answer([rec EXCEPT !.branch = "noflow"], "pending", "none")

\* pollDeviceCodeFlow when activeFlows has no flow for the session, and the
\* route finding no completion entry either
FlowNotFound(rec) ==
  Answer([rec EXCEPT !.branch = "noflow"], "expired", "none")

\* the continuations of all pollers racing on flow f when its promise
\* settles with o: each deletes the session, and on a result each calls
\* completeDeviceCodeAuthentication and sets the completion entry
SettlePolls(f, o) ==
  [p \in Pollers |->
     IF p \in Racers(f)
     THEN Continue([polls[p] EXCEPT !.branch = "settled"], p, o)
     ELSE polls[p]]

SettleFlowsAll(af, f) == [s \in Sessions |-> 0]

\* activeFlows.delete(sessionId) by every poller that was racing on flow f
SettleFlows(af, f) ==
  [s \in Sessions |->
     IF \E p \in Racers(f) : polls[p].sid = s THEN 0 ELSE af[s]]

SettleComps(f, o) ==
  [k \in Pollers |->
     IF k \in Racers(f) /\ Classify(o) = "complete"
     THEN [st |-> "running", flow |-> f]
     ELSE comps[k]]

SettleCache(cc, f, o) ==
  [s \in Sessions |->
     LET R == {p \in Racers(f) : polls[p].sid = s} IN
     IF R # {} /\ Classify(o) = "complete"
     THEN [comp |-> Max(R), expiresAt |-> now + COMPLETION_CACHE_TTL_MS]
     ELSE cc[s]]

\* An ActiveFlow object can be reached through the registry or by a poll
\* suspended on its promise; an object neither holds is garbage: no poll or
\* cancel can ever read it again
Collect(fl, af, ps) ==
  [f \in Calls |->
     IF \/ \E s \in Sessions : af[s] = f
        \/ \E p \in Pollers : ps[p].pc = "racing" /\ ps[p].flow = f
     THEN fl[f] ELSE NoFlow]

\* An authPromise is followed only while it can still make a difference:
\* until its call has returned, while its device-code callback can still
\* fire, or while the flow it is wired to can be read
Followed(r, fl, af, ps) ==
  \/ r.pc = "wait"
  \/ r.pc = "timeout" /\ ~r.captured /\ r.auth = "running"
  \/ /\ r.pc = "ok"
     /\ r.auth = "running"
     /\ r.wired # 0
     /\ \/ \E s \in Sessions : af[s] = r.wired
        \/ \E p \in Pollers : ps[p].pc = "racing" /\ ps[p].flow = r.wired

Detach(cs, fl, af, ps) ==
  [c \in Calls |->
     IF cs[c].pc = "idle" \/ Followed(cs[c], fl, af, ps)
     THEN cs[c]
     ELSE [NoCall EXCEPT !.pc = cs[c].pc, !.sid = cs[c].sid,
                         !.auth = "detached"]]

Init ==
  /\ now = 0
  /\ enabled \in BOOLEAN
  /\ calls = [c \in Calls |-> NoCall]
  /\ flows = [c \in Calls |-> NoFlow]
  /\ activeFlows = [s \in Sessions |-> 0]
  /\ polls = [p \in Pollers |-> NoPoll]
  /\ completionCache = [s \in Sessions |-> NoEntry]
  /\ comps = [k \in Pollers |-> NoComp]
  /\ account = NoAccount
  /\ cancelled = [s \in Sessions |-> FALSE]
  /\ chain = NoChain

Tick ==
  /\ now < MaxTime
  /\ now' = now + 1
  /\ UNCHANGED <<flowVars, account, chain>>

\* ----------------------------------------------- initiateDeviceCodeFlow
\* up to the wait for the device-code callback
InitiateBegin(c, s) ==
  /\ calls[c].pc = "idle"
  /\ OpsBegun < MaxOps
  /\ InOrder(s)
  /\ IF c = 1 THEN TRUE ELSE calls[c - 1].pc # "idle"
  /\ IF ~isMSALDeviceCodeEnabled
     THEN /\ calls' = Detach([calls EXCEPT ![c].pc = "disabled",
                                            ![c].sid = s],
                             flows, activeFlows, polls)
          /\ UNCHANGED <<flows, activeFlows, cancelled>>
     ELSE LET af == cleanupExpiredFlows(activeFlows) IN
          /\ activeFlows' = af
          /\ flows' = Collect(flows, af, polls)
          /\ cancelled' = [cancelled EXCEPT ![s] = FALSE]
          /\ calls' = Detach(
                IF HasSession(af, s)
                THEN [calls EXCEPT ![c].pc = "conflict", ![c].sid = s]
                ELSE [calls EXCEPT ![c].pc = "wait", ![c].sid = s,
                                   ![c].auth = "running"],
                flows', af, polls)
  /\ UNCHANGED <<now, enabled, polls, completionCache, comps, account, chain>>

\* deviceCodeCallback: the provider has allocated a user code
DeviceCodeCallback(c, e) ==
  /\ calls[c].pc \in {"wait", "timeout"}
  /\ calls[c].auth = "running"
  /\ ~calls[c].captured
  /\ LET af == [activeFlows EXCEPT ![calls[c].sid] = c]
         fl == [flows EXCEPT ![c] =
                  [slot |-> "unset",
                   expiresAt |-> now + e]] IN
     /\ activeFlows' = af
     /\ flows' = Collect(fl, af, polls)
     /\ calls' = Detach([calls EXCEPT ![c].captured = TRUE],
                        flows', af, polls)
  /\ UNCHANGED <<now, enabled, polls, completionCache, comps, account,
                 cancelled, chain>>

\* the 10 s timer of the wait fires before the callback was called
InitiateTimeout(c) ==
  /\ calls[c].pc = "wait"
  /\ ~calls[c].captured
  /\ calls' = Detach([calls EXCEPT ![c].pc = "timeout"],
                     flows, activeFlows, polls)
  /\ UNCHANGED <<now, enabled, flows, activeFlows, polls, completionCache,
                 comps, account, cancelled, chain>>

\* authPromise.then/.catch: flow.resolve(result) or flow.reject(error) on
\* the flow f, with everything the pollers racing on f then do
FillFlow(f, o) ==
  LET af == SettleFlows(activeFlows, f)
      ps == SettlePolls(f, o) IN
  /\ polls' = ps
  /\ activeFlows' = af
  /\ comps' = SettleComps(f, o)
  /\ completionCache' = SettleCache(completionCache, f, o)
  /\ flows' = Collect([flows EXCEPT ![f].slot = o], af, ps)

FillableAgain(f) ==
  /\ f # 0
  /\ \/ \E s \in Sessions : activeFlows[s] = f
     \/ Racers(f) # {}

\* the flow f can still be read and its promise is unsettled: resolve and
\* reject of a settled promise do nothing
Fillable(f) ==
  /\ f # 0
  /\ flows[f].slot = "unset"
  /\ \/ \E s \in Sessions : activeFlows[s] = f
     \/ Racers(f) # {}

CodeCapturedAlways(r) == TRUE

\* the test of the 100 ms interval: if (capturedDeviceCode) resolve()
CodeCaptured(r) == r.captured

\* the wait ends: look the flow up again, wire authPromise to it, return.
\* An authPromise that has settled already fills the flow at once.
InitiateResume(c) ==
  /\ calls[c].pc = "wait"
  /\ CodeCaptured(calls[c])
  /\ LET f == activeFlows[calls[c].sid]
         o == calls[c].auth IN
     IF f = 0
     THEN /\ UNCHANGED <<flows, activeFlows, polls, completionCache, comps>>
          /\ calls' = Detach([calls EXCEPT ![c].pc = "failed"],
                             flows, activeFlows, polls)
     ELSE IF o # "running"
     THEN /\ IF Fillable(f)
             THEN FillFlow(f, o)
             ELSE UNCHANGED <<flows, activeFlows, polls, completionCache,
                              comps>>
          /\ calls' = Detach([calls EXCEPT ![c].pc = "ok"],
                             flows', activeFlows', polls')
     ELSE /\ UNCHANGED <<flows, activeFlows, polls, completionCache, comps>>
          /\ calls' = Detach([calls EXCEPT ![c].pc = "ok", ![c].wired = f],
                             flows, activeFlows, polls)
  /\ UNCHANGED <<now, enabled, account, cancelled, chain>>

\* app.acquireTokenByDeviceCode settles: with a result once the user has
\* entered the code that initiate returned, with null or an error earlier
AuthOutcomes == {"result", "null", "errPending", "errOther"}

AuthSettle(c, o) ==
  /\ calls[c].auth = "running"
  /\ o = "result" => calls[c].pc = "ok"
  /\ o = "null" => calls[c].captured
  /\ IF Fillable(calls[c].wired)
     THEN FillFlow(calls[c].wired, o)
     ELSE UNCHANGED <<flows, activeFlows, polls, completionCache, comps>>
  /\ calls' = Detach([calls EXCEPT ![c].auth = o],
                     flows', activeFlows', polls')
  /\ UNCHANGED <<now, enabled, account, cancelled, chain>>

\* setInterval(cleanupExpiredFlows, 5 * 60 * 1000)
Sweep ==
  /\ activeFlows' = cleanupExpiredFlows(activeFlows)
  /\ activeFlows' # activeFlows
  /\ flows' = Collect(flows, activeFlows', polls)
  /\ calls' = Detach(calls, flows', activeFlows', polls)
  /\ UNCHANGED <<now, enabled, polls, completionCache, comps, account,
                 cancelled, chain>>

\* ------------------------------------------------- cancelDeviceCodeFlow
\* the value cancelDeviceCodeFlow(s) returns
CancelReturn(s) == HasSession(activeFlows, s)

Cancel(s) ==
  LET f == activeFlows[s] IN
  /\ CancelReturn(s)
  /\ cancelled' = [cancelled EXCEPT ![s] = TRUE]
  /\ LET o == IF flows[f].slot = "unset" THEN "cancelled" ELSE flows[f].slot
         af == [SettleFlows(activeFlows, f) EXCEPT ![s] = 0]
         ps == IF flows[f].slot = "unset"
               THEN SettlePolls(f, "cancelled") ELSE polls IN
     /\ activeFlows' = af
     /\ polls' = ps
     /\ flows' = Collect([flows EXCEPT ![f].slot = o], af, ps)
     /\ calls' = Detach(calls, flows', af, ps)
  /\ UNCHANGED <<now, enabled, completionCache, comps, account, chain>>

\* cancelDeviceCodeFlow(s) when no flow is registered: returns false
CancelNone(s) ==
  /\ ~CancelReturn(s)
  /\ UNCHANGED vars

\* --------------------------------------------- POST /device-code/poll
\* the payloads (completion ids) already answered as complete for s
Answered(s) ==
  {polls[q].entry : q \in {r \in Pollers : /\ polls[r].pc = "done"
                                          /\ polls[r].status = "complete"
                                          /\ polls[r].sid = s}}

\* the poll request as it arrives: what is true of its session just then
Arrive(s) ==
  [NoPoll EXCEPT
     !.sid = s,
     !.seen = Answered(s),
     !.afterCancel = cancelled[s],
     !.sawResolved = /\ activeFlows[s] # 0
                     /\ ~FlowExpired(activeFlows[s])
                     /\ flows[activeFlows[s]].slot = "result"]

\* the whole handler up to its first suspension on a timer or on I/O
PollBegin(p, s) ==
  /\ polls[p].pc = "idle"
  /\ OpsBegun < MaxOps
  /\ InOrder(s)
  /\ IF p = 1 THEN TRUE ELSE polls[p - 1].pc # "idle"
  /\ IF ~isMSALDeviceCodeEnabled
     THEN /\ polls' = [polls EXCEPT ![p] =
                 Answer([NoPoll EXCEPT !.sid = s, !.branch = "disabled"],
                        "forbidden", "none")]
          /\ UNCHANGED <<flows, activeFlows, completionCache, comps,
                         cancelled>>
     ELSE
     LET cc == cleanupCompletionCache(completionCache)
         f == activeFlows[s]
         rec == Arrive(s)
     IN
     /\ cancelled' = [cancelled EXCEPT ![s] = FALSE]
     /\ IF cc[s].comp # 0
        THEN \* completionCache.get(sessionId) hit
             LET k == cc[s].comp
                 r == [rec EXCEPT !.branch = "cached"] IN
             /\ polls' = [polls EXCEPT ![p] =
                   IF comps[k].st = "running"
                   THEN [r EXCEPT !.pc = "awaiting", !.entry = k]
                   ELSE Respond(r, k, comps[k].st)]
             /\ completionCache' = cc
             /\ UNCHANGED <<flows, activeFlows, comps>>
        ELSE IF ~HasSession(activeFlows, s)
        THEN \* pollDeviceCodeFlow: flow not found
             /\ polls' = [polls EXCEPT ![p] = FlowNotFound(rec)]
             /\ completionCache' = cc
             /\ UNCHANGED <<flows, activeFlows, comps>>
        ELSE IF FlowExpired(f)
        THEN LET af == [activeFlows EXCEPT ![s] = 0] IN
             \* sawFilled: the promise of the expired flow had settled
             /\ polls' = [polls EXCEPT ![p] =
                   [Answer([rec EXCEPT !.branch = "expiredflow"],
                           "expired", "none")
                      EXCEPT !.sawFilled = flows[f].slot # "unset"]]
             /\ activeFlows' = af
             /\ flows' = Collect(flows, af, polls)
             /\ completionCache' = cc
             /\ UNCHANGED comps
        ELSE IF flows[f].slot = "unset"
        THEN \* suspended in Promise.race against the 100 ms timer
             /\ polls' = [polls EXCEPT ![p] =
                   [rec EXCEPT !.pc = "racing", !.flow = f,
                               !.branch = "raced"]]
             /\ completionCache' = cc
             /\ UNCHANGED <<flows, activeFlows, comps>>
        ELSE \* the flow promise had settled: the race is won at once
             LET o == flows[f].slot
                 af == [activeFlows EXCEPT ![s] = 0] IN
             /\ polls' = [polls EXCEPT ![p] =
                   Continue([rec EXCEPT !.branch = "resolved"], p, o)]
             /\ activeFlows' = af
             /\ flows' = Collect(flows, af, polls)
             /\ comps' = IF Classify(o) = "complete"
                         THEN [comps EXCEPT ![p] =
                                 [st |-> "running", flow |-> f]]
                         ELSE comps
             /\ completionCache' =
                   IF Classify(o) = "complete"
                   THEN [cc EXCEPT ![s] =
                           [comp |-> p,
                            expiresAt |-> now + COMPLETION_CACHE_TTL_MS]]
                   ELSE cc
  /\ calls' = Detach(calls, flows', activeFlows', polls')
  /\ UNCHANGED <<now, enabled, account, chain>>

\* the 100 ms timer wins the race: the flow promise is still unsettled
PollTimer(p) ==
  /\ polls[p].pc = "racing"
  /\ polls' = [polls EXCEPT ![p] = Answer(polls[p], "pending", "none")]
  /\ flows' = Collect(flows, activeFlows, polls')
  /\ calls' = Detach(calls, flows', activeFlows, polls')
  /\ UNCHANGED <<now, enabled, activeFlows, completionCache, comps,
                 account, cancelled, chain>>

\* encryptToken: the ciphertext of a plaintext, or null when it fails
encryptTokenPlain(t, ok) == t

encryptToken(t, ok) == IF ok /\ t = "plain" THEN "enc" ELSE "none"

\* tokenCache.serialize() after a device-code sign-in: the whole in-memory
\* cache of the application, that is the account's own refresh token entry
\* and the entry of another account the cache holds
serialize ==
  IF account.foreign
  THEN <<[key |-> FALSE, home |-> FALSE, secret |-> "r2"],
         [key |-> TRUE, home |-> TRUE, secret |-> "r1"]>>
  ELSE <<[key |-> TRUE, home |-> TRUE, secret |-> "r1"]>>

\* what can happen to one run of completeDeviceCodeAuthentication: where it
\* throws ("before" the account upsert, in the "upsert", "after" it in the
\* transaction or the session insert, or "none"), whether the two
\* encryptToken calls succeed and whether the cache update reaches the store
CompletionRuns ==
  [fail : {"none", "before", "upsert", "after"}, encryptAccess : BOOLEAN,
   encryptCache : BOOLEAN, cacheWrite : BOOLEAN]

\* the account row after the upsert and the guarded cache update
CompletedAccount(r) ==
  LET up == [account EXCEPT
               !.access_token = encryptToken("plain", r.encryptAccess),
               !.expires_at = now + TOKEN_LIFETIME,
               !.msal = TRUE]
      encryptedCache == encryptToken("plain", r.encryptCache) IN
  IF encryptedCache # "none" /\ r.cacheWrite
  THEN [up EXCEPT !.msal_cache = encryptedCache, !.RefreshToken = serialize]
  ELSE up

\* completeDeviceCodeAuthentication started by poller k settles; every
\* poller awaiting its promise answers
CompletionFinish(k, r) ==
  /\ comps[k].st = "running"
  /\ comps' = [comps EXCEPT ![k].st =
                 IF r.fail = "none" THEN "ok" ELSE "failed"]
  /\ polls' = [p \in Pollers |->
       IF polls[p].pc = "awaiting" /\ polls[p].entry = k
       THEN Respond(polls[p], k, IF r.fail = "none" THEN "ok" ELSE "failed")
       ELSE polls[p]]
  /\ account' = IF r.fail \in {"before", "upsert"}
                THEN account
                ELSE CompletedAccount(r)
  /\ UNCHANGED <<now, enabled, calls, flows, activeFlows, completionCache,
                 cancelled, chain>>

\* ------------------------------ POST /calendar/device-code-connect, step 4
\* decryptToken: the plaintext, or null for a ciphertext it cannot open
decryptToken(t) == IF t = "enc" THEN "plain" ELSE "none"

tokenStillValidNoBuffer(a) ==
  /\ a.access_token # "none"
  /\ a.expires_at # -1
  /\ a.expires_at > now

\* storedToken && storedExpiry && storedExpiry.getTime() > Date.now() + 5 min
tokenStillValid(a) ==
  /\ a.access_token # "none"
  /\ a.expires_at # -1
  /\ a.expires_at > now + FIVE_MIN_BUFFER

\* acquireMSALTokenSilent: null when the feature is off or the account is
\* not in the MSAL cache; otherwise the provider answers (ok) or fails
acquireMSALTokenSilent(ok) ==
  IF isMSALDeviceCodeEnabled /\ account.msal /\ ok THEN "fresh" ELSE "none"

\* the token step of the route: stored token first, then MSAL; the route
\* answers 400 before this step when the feature is off
GetAccessToken(ok) ==
  /\ isMSALDeviceCodeEnabled
  /\ chain' =
       IF tokenStillValid(account)
       THEN IF decryptToken(account.access_token) # "none"
            THEN [result |-> "stored",
                  token |-> decryptToken(account.access_token),
                  silent |-> FALSE, at |-> now]
            ELSE [result |-> "decryptionFailed", token |-> "none",
                  silent |-> FALSE, at |-> now]
       ELSE IF acquireMSALTokenSilent(ok) # "none"
            THEN [result |-> "msal", token |-> acquireMSALTokenSilent(ok),
                  silent |-> TRUE, at |-> now]
            ELSE [result |-> "reauthenticate", token |-> "none",
                  silent |-> TRUE, at |-> now]
  /\ UNCHANGED <<now, flowVars, account>>

\* getMSALApp in a new process: the PublicClientApplication is built from
\* auth and system options only, no cache plugin, so its token cache starts
\* empty whatever the store holds
getMSALApp(a) == [a EXCEPT !.msal = FALSE, !.foreign = FALSE]

\* the process restarts: the registry, the completion cache, the requests
\* in flight and the MSAL application are gone, the store is kept
Restart ==
  /\ calls' = [c \in Calls |-> NoCall]
  /\ flows' = [c \in Calls |-> NoFlow]
  /\ activeFlows' = [s \in Sessions |-> 0]
  /\ polls' = [p \in Pollers |-> NoPoll]
  /\ completionCache' = [s \in Sessions |-> NoEntry]
  /\ comps' = [k \in Pollers |-> NoComp]
  /\ account' = getMSALApp(account)
  /\ UNCHANGED <<now, enabled, cancelled, chain>>

\* an account record as an earlier authentication may have left it
InitChain ==
  /\ now = 0
  /\ enabled \in BOOLEAN
  /\ calls = [c \in Calls |-> NoCall]
  /\ flows = [c \in Calls |-> NoFlow]
  /\ activeFlows = [s \in Sessions |-> 0]
  /\ polls = [p \in Pollers |-> NoPoll]
  /\ completionCache = [s \in Sessions |-> NoEntry]
  /\ comps = [k \in Pollers |-> NoComp]
  /\ cancelled = [s \in Sessions |-> FALSE]
  /\ chain = NoChain
  /\ account \in [access_token : {"none", "enc", "garbled"},
                  expires_at : -1..MaxExpiry,
                  msal : BOOLEAN,
                  msal_cache : {"none", "enc"},
                  RefreshToken : {<<>>},
                  foreign : {FALSE}]

NextChain ==
  \/ Tick
  \/ \E ok \in BOOLEAN : GetAccessToken(ok)
  \/ Restart

SpecChain == InitChain /\ [][NextChain]_vars

Next ==
  \/ Tick
  \/ \E c \in Calls, s \in Sessions : InitiateBegin(c, s)
  \/ \E c \in Calls, e \in ExpiresIn : DeviceCodeCallback(c, e)
  \/ \E c \in Calls : InitiateTimeout(c)
  \/ \E c \in Calls : InitiateResume(c)
  \/ \E c \in Calls, o \in AuthOutcomes : AuthSettle(c, o)
  \/ Sweep
  \/ \E s \in Sessions : Cancel(s)
  \/ \E s \in Sessions : CancelNone(s)
  \/ \E p \in Pollers, s \in Sessions : PollBegin(p, s)
  \/ \E p \in Pollers : PollTimer(p)
  \/ \E k \in Pollers, r \in CompletionRuns : CompletionFinish(k, r)

Spec == Init /\ [][Next]_vars

\* ------------------------------------------------------ msal-cache-plugin
\* the RefreshToken sections a stored cache can carry, in key order
Blobs == UNION {[1..n -> TokenEntries] : n \in 0..MaxEntries}

CaughtRethrown(v) == v

\* try { ... } catch (error) { logger.error(...) }: nothing is rethrown
Caught(v) == IF v = "raised" THEN "none" ELSE v

\* prisma.account.findFirst({ select: { msal_cache } }): the column, or a
\* rejection when the store cannot be read
findFirst(a, dbOk) == IF dbOk THEN a.msal_cache ELSE "raised"

\* beforeCacheAccess: "cache" when the stored blob was deserialized into
\* the token cache, "none" when nothing was
beforeCacheAccess(a, dbOk) ==
  Caught(IF findFirst(a, dbOk) = "raised" THEN "raised"
         ELSE IF findFirst(a, dbOk) # "none"
                 /\ decryptToken(findFirst(a, dbOk)) # "none"
         THEN "cache"
         ELSE "none")

\* the entries of rt that have a secret and whose key or home_account_id
\* contains the account id
Matching(rt) ==
  {i \in DOMAIN rt : rt[i].secret # "none" /\ (rt[i].key \/ rt[i].home)}

extractRefreshTokenAny(a, dbOk) ==
  IF dbOk /\ a.msal_cache = "enc" /\ Len(a.RefreshToken) > 0
  THEN a.RefreshToken[1].secret
  ELSE "none"

\* extractRefreshTokenFromCache: the secret of the first matching entry,
\* else the secret of the only entry, else null
extractRefreshTokenFromCache(a, dbOk) ==
  Caught(IF findFirst(a, dbOk) = "raised" THEN "raised"
         ELSE IF findFirst(a, dbOk) = "none" THEN "none"
         ELSE IF decryptToken(findFirst(a, dbOk)) = "none" THEN "none"
         ELSE LET rt == a.RefreshToken
                  first == CHOOSE i \in Matching(rt) :
                             \A j \in Matching(rt) : i <= j IN
              IF Matching(rt) # {} THEN rt[first].secret
              ELSE IF Len(rt) = 1 /\ rt[1].secret # "none"
              THEN rt[1].secret
              ELSE "none")

\* the RefreshToken section after updateRefreshTokenInCache has set the
\* secret of every entry whose key matches, or of the only entry
UpdatedEntries(rt, new) ==
  [i \in DOMAIN rt |->
     IF rt[i].key \/ Len(rt) = 1
     THEN [rt[i] EXCEPT !.secret = new]
     ELSE rt[i]]

\* the answer of a store operation, kept where the token step keeps its
\* own: the operation, what it returned and whether the store could be read
StoreAnswer(op, v, dbOk) ==
  [result |-> op, token |-> v, silent |-> FALSE, at |-> now, read |-> dbOk]

BeforeCacheAccess(dbOk) ==
  /\ chain' = StoreAnswer("load", beforeCacheAccess(account, dbOk), dbOk)
  /\ account' =
       IF beforeCacheAccess(account, dbOk) = "cache"
       THEN [account EXCEPT
               !.msal = TRUE,
               !.foreign = \/ account.foreign
                           \/ \E i \in DOMAIN account.RefreshToken :
                                /\ ~account.RefreshToken[i].key
                                /\ ~account.RefreshToken[i].home]
       ELSE account
  /\ UNCHANGED <<now, flowVars>>

\* afterCacheAccess: the serialized cache is encrypted and written when
\* the cache has changed; a failed encryption or write is logged only
AfterCacheAccess(cacheHasChanged, encOk, dbOk) ==
  /\ account.msal
  /\ chain' = StoreAnswer("save", "none", dbOk)
  /\ account' =
       IF cacheHasChanged /\ encryptToken("plain", encOk) # "none" /\ dbOk
       THEN [account EXCEPT !.msal_cache = encryptToken("plain", encOk),
                            !.RefreshToken = serialize]
       ELSE account
  /\ UNCHANGED <<now, flowVars>>

ExtractRefreshToken(dbOk) ==
  /\ chain' = StoreAnswer("extract",
                          extractRefreshTokenFromCache(account, dbOk), dbOk)
  /\ UNCHANGED <<now, flowVars, account>>

\* updateRefreshTokenInCache(providerAccountId, newRefreshToken)
UpdateRefreshTokenInCache(new, encOk, dbOk) ==
  /\ chain' = StoreAnswer("update", "none", dbOk)
  /\ account' =
       IF /\ dbOk
          /\ account.msal_cache # "none"
          /\ decryptToken(account.msal_cache) # "none"
          /\ \E i \in DOMAIN account.RefreshToken :
               account.RefreshToken[i].key \/ Len(account.RefreshToken) = 1
          /\ encryptToken("plain", encOk) # "none"
       THEN [account EXCEPT
               !.msal_cache = encryptToken("plain", encOk),
               !.RefreshToken = UpdatedEntries(account.RefreshToken, new)]
       ELSE account
  /\ UNCHANGED <<now, flowVars>>

\* app.acquireTokenByDeviceCode of a flow in which the user signs in with
\* another account: MSAL puts its tokens into the cache of the application
AcquireTokenByDeviceCodeOther ==
  /\ isMSALDeviceCodeEnabled
  /\ ~account.foreign
  /\ account' = [account EXCEPT !.foreign = TRUE]
  /\ chain' = StoreAnswer("signin", "none", FALSE)
  /\ UNCHANGED <<now, flowVars>>

\* the store as an earlier sign-in may have left it, and a poll that has
\* found the result of a new sign-in and awaits its completion
InitStore ==
  /\ now = 0
  /\ enabled = TRUE
  /\ calls = [c \in Calls |->
       IF c = 1
       THEN [NoCall EXCEPT !.pc = "ok", !.sid = "s1", !.auth = "detached"]
       ELSE NoCall]
  /\ flows = [c \in Calls |-> NoFlow]
  /\ activeFlows = [s \in Sessions |-> 0]
  /\ polls = [p \in Pollers |->
       IF p = 1
       THEN [NoPoll EXCEPT !.pc = "awaiting", !.sid = "s1", !.entry = 1,
                           !.branch = "resolved", !.sawResolved = TRUE]
       ELSE NoPoll]
  /\ completionCache = [s \in Sessions |->
       IF s = "s1"
       THEN [comp |-> 1, expiresAt |-> COMPLETION_CACHE_TTL_MS]
       ELSE NoEntry]
  /\ comps = [k \in Pollers |->
       IF k = 1 THEN [st |-> "running", flow |-> 1] ELSE NoComp]
  /\ cancelled = [s \in Sessions |-> FALSE]
  /\ chain = NoChain
  /\ account \in [access_token : {"none", "enc"},
                  expires_at : {-1},
                  msal : BOOLEAN,
                  msal_cache : {"none", "enc", "garbled"},
                  RefreshToken : Blobs,
                  foreign : {FALSE}]
  /\ account.msal_cache = "none" => account.RefreshToken = <<>>

NextStore ==
  \/ \E k \in Pollers, r \in CompletionRuns : CompletionFinish(k, r)
  \/ \E dbOk \in BOOLEAN : BeforeCacheAccess(dbOk)
  \/ \E ch \in BOOLEAN, encOk \in BOOLEAN, dbOk \in BOOLEAN :
       AfterCacheAccess(ch, encOk, dbOk)
  \/ \E dbOk \in BOOLEAN : ExtractRefreshToken(dbOk)
  \/ \E new \in Secrets \ {"none"}, encOk \in BOOLEAN, dbOk \in BOOLEAN :
       UpdateRefreshTokenInCache(new, encOk, dbOk)
  \/ AcquireTokenByDeviceCodeOther

SpecStore == InitStore /\ [][NextStore]_vars

\* ------------------------------------------------------ getActiveFlowCount
getActiveFlowCountSize(af) == Cardinality({s \in Sessions : af[s] # 0})

\* getActiveFlowCount: cleanupExpiredFlows(), then activeFlows.size
getActiveFlowCount(af) ==
  Cardinality({s \in Sessions : cleanupExpiredFlows(af)[s] # 0})

\* a call of getActiveFlowCount; the number it returned is kept in count
\* where the token step keeps its answer (the time of the call is not kept)
GetActiveFlowCount ==
  /\ activeFlows' = cleanupExpiredFlows(activeFlows)
  /\ flows' = Collect(flows, activeFlows', polls)
  /\ calls' = Detach(calls, flows', activeFlows', polls)
  /\ chain' = [result |-> "count", token |-> "none", silent |-> FALSE,
               at |-> 0, count |-> getActiveFlowCount(activeFlows)]
  /\ UNCHANGED <<now, enabled, polls, completionCache, comps, account,
                 cancelled>>

\* the registry with its monitoring call: initiate, poll, cancel, sweep and
\* count, for up to MaxOpsRegistry requests, with the feature on
InitRegistry == Init /\ enabled

NextRegistry ==
  \/ Tick
  \/ \E c \in Calls, s \in Sessions :
       OpsBegun < MaxOpsRegistry /\ InitiateBegin(c, s)
  \/ \E c \in Calls, e \in ExpiresIn : DeviceCodeCallback(c, e)
  \/ \E c \in Calls : InitiateTimeout(c)
  \/ \E c \in Calls : InitiateResume(c)
  \/ \E c \in Calls, o \in AuthOutcomes : AuthSettle(c, o)
  \/ Sweep
  \/ \E s \in Sessions : Cancel(s)
  \/ \E p \in Pollers, s \in Sessions :
       OpsBegun < MaxOpsRegistry /\ PollBegin(p, s)
  \/ \E p \in Pollers : PollTimer(p)
  \/ GetActiveFlowCount

SpecRegistry == InitRegistry /\ [][NextRegistry]_vars

\* the registry operations with the 100 ms timer of every poll firing once
\* it is due; nothing is assumed of the provider
SpecPoll ==
  InitRegistry /\ [][NextRegistry]_vars
    /\ \A p \in Pollers : WF_vars(PollTimer(p))

\* ------------------------------------------ the registry as time goes on
\* the clock after the last device code was issued: it goes on until every
\* expiresAt that was handed out has passed
TimePasses ==
  /\ now >= MaxTime
  /\ \E s \in Sessions :
       activeFlows[s] # 0 /\ ~FlowExpired(activeFlows[s])
  /\ now' = now + 1
  /\ UNCHANGED <<flowVars, account, chain>>

\* the registry operations for up to MaxOpsSweep requests; the provider
\* issues device codes up to MaxTime only.  The clock advances and the
\* interval timer of cleanupExpiredFlows fires whenever it has work to do.
NextSweep ==
  \/ Tick
  \/ TimePasses
  \/ \E c \in Calls, s \in Sessions :
       OpsBegun < MaxOpsSweep /\ InitiateBegin(c, s)
  \/ \E c \in Calls, e \in ExpiresIn :
       now <= MaxTime /\ DeviceCodeCallback(c, e)
  \/ \E c \in Calls : InitiateTimeout(c)
  \/ \E c \in Calls : InitiateResume(c)
  \/ \E c \in Calls, o \in AuthOutcomes : AuthSettle(c, o)
  \/ Sweep
  \/ \E s \in Sessions : Cancel(s)
  \/ \E p \in Pollers, s \in Sessions :
       OpsBegun < MaxOpsSweep /\ PollBegin(p, s)
  \/ \E p \in Pollers : PollTimer(p)

SpecSweep ==
  /\ InitRegistry
  /\ [][NextSweep]_vars
  /\ WF_vars(Tick)
  /\ WF_vars(TimePasses)
  /\ WF_vars(Sweep)

\* ================================================================ claims

\* C1: however many polls of one session race while its flow completes, the
\* completion side effect runs once: no flow has two completion runs.
C1_CompletedOnce ==
  \A f \in Calls :
    Cardinality({k \in Pollers : comps[k].st # "none" /\ comps[k].flow = f})
      <= 1

\* C2: polls that observe the completion of the same flow are answered with
\* the same payload: they awaited the same completion run.
C2_SamePayload ==
  \A p, q \in Pollers :
    ( /\ polls[p].pc = "done" /\ polls[p].status = "complete"
      /\ polls[q].pc = "done" /\ polls[q].status = "complete"
      /\ comps[polls[p].entry].flow = comps[polls[q].entry].flow )
    => polls[p].entry = polls[q].entry

\* C3: a poll that arrives after a poll of its session was answered complete
\* is answered complete too, with a payload already answered for that session.
C3_CompleteForEver ==
  [][\A p \in Pollers :
       ( /\ enabled
         /\ polls[p].pc # "done"
         /\ polls'[p].pc = "done"
         /\ IF polls[p].pc = "idle"
            THEN Answered(polls'[p].sid) # {}
            ELSE polls[p].seen # {} )
       => /\ polls'[p].status = "complete"
          /\ polls'[p].entry \in (IF polls[p].pc = "idle"
                                  THEN Answered(polls'[p].sid)
                                  ELSE polls[p].seen)]_vars

\* C4: once an initiate of a session id has succeeded and the session's flow
\* is registered and not expired, a further initiate with that id fails with
\* the conflict error and leaves the registered flow as it was.
C4_ConflictWhileLive ==
  [][\A c \in Calls, s \in Sessions :
       ( /\ enabled
         /\ calls[c].pc = "idle"
         /\ calls'[c].pc # "idle"
         /\ calls'[c].sid = s
         /\ activeFlows[s] # 0
         /\ now <= flows[activeFlows[s]].expiresAt
         /\ \E d \in Calls : calls[d].pc = "ok" /\ calls[d].sid = s )
       => /\ calls'[c].pc = "conflict"
          /\ activeFlows'[s] = activeFlows[s]
          /\ flows'[activeFlows[s]] = flows[activeFlows[s]]]_vars

C4_Witness ==
  \E c, d \in Calls :
    /\ calls[d].pc = "ok"
    /\ calls[c].pc = "conflict"
    /\ calls[c].sid = calls[d].sid
    /\ activeFlows[calls[d].sid] = d

\* C5: the first poll of a session after a cancel of it returned true, with
\* no initiate for it begun in between, is answered error or expired.
C5_NoPendingAfterCancel ==
  [][\A p \in Pollers :
       ( /\ enabled
         /\ polls[p].pc # "done"
         /\ polls'[p].pc = "done"
         /\ IF polls[p].pc = "idle"
            THEN cancelled[polls'[p].sid]
            ELSE polls[p].afterCancel )
       => polls'[p].status \in {"error", "expired"}]_vars

\* C6: cancel of a session that has no registered flow, or whose flow has
\* resolved with a result (polled or not), returns false and leaves the
\* registry, the result slots and the completion cache as they were.
C6_CancelIsNoOp ==
  [][\A s \in Sessions :
       ( /\ Cancel(s) \/ CancelNone(s)
         /\ \/ activeFlows[s] = 0
            \/ flows[activeFlows[s]].slot = "result" )
       => /\ ~CancelReturn(s)
          /\ UNCHANGED <<activeFlows, flows, completionCache>>]_vars

\* C7 (as stated): a poll that finds its session's flow registered, not
\* expired and resolved with a result is answered complete.
C7_CompleteWhenResolved ==
  [][\A p \in Pollers :
       ( /\ enabled
         /\ polls[p].pc # "done"
         /\ polls'[p].pc = "done"
         /\ IF polls[p].pc = "idle"
            THEN /\ activeFlows[polls'[p].sid] # 0
                 /\ now <= flows[activeFlows[polls'[p].sid]].expiresAt
                 /\ flows[activeFlows[polls'[p].sid]].slot = "result"
            ELSE polls[p].sawResolved )
       => polls'[p].status = "complete"]_vars

\* C7 (amended): a poll that finds its session's flow registered, not expired
\* and resolved with a result is answered complete when the completion it
\* awaits succeeds and error when that completion fails; never pending,
\* never expired.
C7_CompleteOrCompletionError ==
  [][\A p \in Pollers :
       ( /\ enabled
         /\ polls[p].pc # "done"
         /\ polls'[p].pc = "done"
         /\ IF polls[p].pc = "idle"
            THEN /\ activeFlows[polls'[p].sid] # 0
                 /\ now <= flows[activeFlows[polls'[p].sid]].expiresAt
                 /\ flows[activeFlows[polls'[p].sid]].slot = "result"
            ELSE polls[p].sawResolved )
       => /\ polls'[p].entry # 0
          /\ \/ /\ polls'[p].status = "complete"
                /\ comps'[polls'[p].entry].st = "ok"
             \/ /\ polls'[p].status = "error"
                /\ comps'[polls'[p].entry].st = "failed"]_vars

C7_Witness ==
  \E p \in Pollers :
    /\ polls[p].pc = "done"
    /\ polls[p].branch = "resolved"
    /\ polls[p].status = "complete"
    /\ comps[polls[p].entry].st = "ok"

\* C8 (as stated): a poll of a session with no registered flow and no
\* completion entry is answered expired, without error or result, and
\* changes no state.
C8_ExpiredNoChange ==
  [][\A p \in Pollers, s \in Sessions :
       ( /\ enabled
         /\ polls[p].pc = "idle"
         /\ polls'[p].pc # "idle"
         /\ polls'[p].sid = s
         /\ activeFlows[s] = 0
         /\ completionCache[s].comp = 0 )
       => /\ polls'[p].pc = "done"
          /\ polls'[p].status = "expired"
          /\ polls'[p].err = "none"
          /\ polls'[p].entry = 0
          /\ UNCHANGED <<calls, flows, activeFlows, comps, account>>
          /\ completionCache' = completionCache]_vars

\* C8 (amended): a poll of a session with no registered flow and no
\* completion entry is answered expired, without error or result, and
\* changes nothing but the completion cache, from which it removes the
\* entries of other sessions whose time to live has run out.
C8_ExpiredOnlyPurges ==
  [][\A p \in Pollers, s \in Sessions :
       ( /\ enabled
         /\ polls[p].pc = "idle"
         /\ polls'[p].pc # "idle"
         /\ polls'[p].sid = s
         /\ activeFlows[s] = 0
         /\ completionCache[s].comp = 0 )
       => /\ polls'[p].pc = "done"
          /\ polls'[p].status = "expired"
          /\ polls'[p].err = "none"
          /\ polls'[p].entry = 0
          /\ UNCHANGED <<calls, flows, activeFlows, comps, account>>
          /\ completionCache' =
               [x \in Sessions |->
                  IF /\ completionCache[x].comp # 0
                     /\ completionCache[x].expiresAt <= now
                  THEN NoEntry ELSE completionCache[x]]]_vars

C8_Witness ==
  \E p \in Pollers :
    /\ polls[p].pc = "done"
    /\ polls[p].branch = "noflow"
    /\ polls[p].status = "expired"
    /\ \E q \in Pollers :
         /\ polls[q].pc = "done"
         /\ polls[q].status = "complete"
         /\ polls[q].sid # polls[p].sid
         /\ completionCache[polls[q].sid].comp = 0

\* C9: a poll of a session whose registered flow has passed its expiresAt is
\* answered expired, also after earlier polls were answered pending, and
\* removes the flow from the registry.
C9_ExpiredFlowRemoved ==
  [][\A p \in Pollers, s \in Sessions :
       ( /\ enabled
         /\ polls[p].pc = "idle"
         /\ polls'[p].pc # "idle"
         /\ polls'[p].sid = s
         /\ activeFlows[s] # 0
         /\ now > flows[activeFlows[s]].expiresAt )
       => /\ polls'[p].pc = "done"
          /\ polls'[p].status = "expired"
          /\ activeFlows'[s] = 0]_vars

C9_Witness ==
  \E p, q \in Pollers :
    /\ polls[p].pc = "done"
    /\ polls[p].branch = "expiredflow"
    /\ polls[p].status = "expired"
    /\ polls[q].pc = "done"
    /\ polls[q].status = "pending"
    /\ polls[q].sid = polls[p].sid
    /\ q < p
    /\ activeFlows[polls[p].sid] = 0

C11_TokenOrReauthenticate ==
  chain.result # "none" =>
    /\ chain.result \in {"stored", "msal", "reauthenticate"}
    /\ chain.result = "reauthenticate" => chain.silent

\* C12: in a process that has just started (empty registry, empty
\* completion cache, empty in-memory token cache), the token step for an
\* account with a persisted cache blob and an expired stored token, with
\* the provider answering, still ends with a live token.
C12_LiveTokenAfterRestart ==
  [][(/\ ~account.msal
      /\ account.msal_cache = "enc"
      /\ ~(account.expires_at > now + FIVE_MIN_BUFFER)
      /\ GetAccessToken(TRUE))
     => chain'.token # "none"]_vars

\* C14: while the feature flag is off, every initiate call fails with
\* feature-disabled before any provider request is issued, every poll is
\* answered 403, and no step changes the registry, the flows, the
\* completion cache or the completions.
C14_DisabledFailsClosed ==
  [][~enabled =>
       /\ \A c \in Calls : calls'[c].pc \in {"idle", "disabled"}
       /\ \A p \in Pollers :
            polls'[p].pc = "idle" \/ polls'[p].status = "forbidden"
       /\ activeFlows' = activeFlows
       /\ flows' = flows
       /\ completionCache' = completionCache
       /\ comps' = comps]_vars

C14_Witness ==
  /\ ~enabled
  /\ \E c \in Calls : calls[c].pc = "disabled"
  /\ \E p \in Pollers : polls[p].pc = "done" /\ polls[p].status = "forbidden"

C16_PendingSignalIsPending ==
  [][\A p \in Pollers :
       (/\ polls[p].pc = "idle"
        /\ polls'[p].branch = "resolved"
        /\ flows[activeFlows[polls'[p].sid]].slot = "errPending")
       => (polls'[p].pc = "done" /\ polls'[p].status = "pending")]_vars

C16_Witness ==
  \E p \in Pollers :
    /\ polls[p].pc = "done"
    /\ polls[p].branch = "resolved"
    /\ polls[p].status = "pending"

\* C17: the authorization-pending error is not terminal: when a poll has
\* mapped it to pending, the flow of the session is still registered, so
\* that a later poll before expiresAt is not answered expired.
C17_PendingKeepsFlow ==
  [][\A p \in Pollers :
       (/\ polls[p].pc # "done"
        /\ polls'[p].pc = "done"
        /\ polls'[p].branch \in {"resolved", "settled"}
        /\ polls'[p].status = "pending")
       => activeFlows'[polls'[p].sid] # 0]_vars

\* C18: a completion in which nothing fails but a write of the access token
\* or of the cache blob to the store still succeeds, and the polls awaiting
\* it are answered complete.
C18_WriteFailureSwallowed ==
  [][\A k \in Pollers, r \in CompletionRuns :
       (r.fail \in {"none", "upsert"} /\ CompletionFinish(k, r)) =>
         /\ comps'[k].st = "ok"
         /\ \A p \in Pollers :
              (polls[p].pc = "awaiting" /\ polls[p].entry = k)
              => polls'[p].status = "complete"]_vars

\* C13: the refresh token extracted from a readable stored cache is the
\* secret of an entry matching the account whenever a matching entry has a
\* secret; otherwise the secret of the only entry when the cache holds
\* exactly one; otherwise nothing.  With two or more entries it is never
\* the secret of an entry that does not match.
C13_ExtractMatchingOrOnly ==
  [][(/\ chain'.result = "extract"
      /\ chain'.read
      /\ account' = account
      /\ comps' = comps
      /\ account.msal_cache = "enc") =>
     LET rt == account.RefreshToken
         M == {i \in DOMAIN rt :
                 rt[i].secret # "none" /\ (rt[i].key \/ rt[i].home)} IN
     /\ M # {} => \E i \in M : chain'.token = rt[i].secret
     /\ (M = {} /\ Len(rt) = 1) => chain'.token = rt[1].secret
     /\ (M = {} /\ Len(rt) # 1) => chain'.token = "none"
     /\ (Len(rt) >= 2 /\ chain'.token # "none") =>
          \E i \in M : chain'.token = rt[i].secret]_vars

C13_Witness ==
  /\ chain.result = "extract"
  /\ chain.read
  /\ account.msal_cache = "enc"
  /\ Len(account.RefreshToken) = 2
  /\ account.RefreshToken[1].secret # "none"
  /\ ~account.RefreshToken[1].key
  /\ ~account.RefreshToken[1].home
  /\ account.RefreshToken[2].key
  /\ account.RefreshToken[2].secret # account.RefreshToken[1].secret
  /\ chain.token = account.RefreshToken[2].secret
  /\ chain.token # "none"

\* C19: loading the stored cache, to deserialize it or to extract a refresh
\* token from it, never raises; when the blob is missing, does not decrypt
\* or the store cannot be read, nothing is deserialized, no credential is
\* returned and the store is left as it was.
C19_LoadNeverRaises ==
  [][(chain'.result \in {"load", "extract"} /\ comps' = comps) =>
       /\ chain'.token # "raised"
       /\ (~chain'.read \/ decryptToken(account.msal_cache) = "none") =>
            (chain'.token = "none" /\ account' = account)]_vars

C19_Witness ==
  /\ chain.result = "load"
  /\ ~chain.read
  /\ chain.token = "none"
  /\ account.msal_cache = "enc"
  /\ ~account.msal

\* C20: the access-token column and the cache-blob column of the store
\* hold a ciphertext or nothing in every reachable state: neither the
\* completion, nor afterCacheAccess, nor updateRefreshTokenInCache writes a
\* plaintext.
C20_OnlyCiphertextStored ==
  /\ account.access_token \in {"none", "enc", "garbled"}
  /\ account.msal_cache \in {"none", "enc", "garbled"}

C20_Witness ==
  /\ comps[1].st = "ok"
  /\ account.access_token = "enc"
  /\ account.msal_cache = "enc"
  /\ chain.result = "update"
  /\ \E i \in DOMAIN account.RefreshToken :
       account.RefreshToken[i].secret = "r2"

\* C21: when cancel runs for a session, every poll of that session that is
\* suspended in its race against the short timer observes the rejection
\* and answers error, not pending.
C21_CancelSeenByRacers ==
  [][\A s \in Sessions, p \in Pollers :
       (Cancel(s) /\ polls[p].pc = "racing" /\ polls[p].sid = s)
       => (polls'[p].pc = "done" /\ polls'[p].status = "error")]_vars

\* C22: the result slot of a flow is assigned once: a slot that is filled
\* keeps its value through every later event (provider success, provider
\* error, cancel) for as long as the flow object can be reached.
C22_SlotAssignedOnce ==
  [][\A f \in Calls :
       flows[f].slot # "unset" =>
         \/ flows'[f].slot = flows[f].slot
         \/ /\ flows'[f] = NoFlow
            /\ \A s \in Sessions : activeFlows'[s] # f
            /\ \A p \in Pollers :
                 ~(polls'[p].pc = "racing" /\ polls'[p].flow = f)]_vars

C22_Witness ==
  \E f \in Calls, c \in Calls :
    /\ flows[f].slot \notin {"unset", "cancelled"}
    /\ \E s \in Sessions : activeFlows[s] = f
    /\ calls[c].wired = f
    /\ calls[c].auth = "running"

\* C24: right after a poll or a getActiveFlowCount call has returned, no
\* flow whose expiresAt has passed is left in the registry, under any
\* session id.
C24_NoExpiredAfterGetOrCount ==
  [][(\/ \E p \in Pollers : polls[p].pc # "done" /\ polls'[p].pc = "done"
      \/ chain'.result = "count" /\ chain' # chain)
     => \A s \in Sessions :
          activeFlows'[s] # 0 => now' <= flows'[activeFlows'[s]].expiresAt]_vars

C23_FlowEventuallyRemoved ==
  \A f \in Calls :
    (\E s \in Sessions : activeFlows[s] = f)
      ~> (\A s \in Sessions : activeFlows[s] # f)

C23_Witness ==
  \E c \in Calls :
    /\ calls[c].pc = "ok"
    /\ activeFlows[calls[c].sid] = 0
    /\ \A d \in Calls \ {c} : calls[d].pc = "idle"
    /\ \A p \in Pollers : polls[p].pc = "idle"
    /\ \A s \in Sessions : ~cancelled[s]

\* C26: flows are isolated by session id.  A step of a poll, of an initiate
\* call, of a device-code callback, of a cancel or of a completion for one
\* session leaves alone, for every other session, the registry entry and
\* the result slot of a flow that has not expired and a completion entry
\* that has not expired; and no step at all changes them for two sessions.
C26_SessionsIsolated ==
  [][LET Changed(s) ==
           \/ /\ activeFlows[s] # 0
              /\ now <= flows[activeFlows[s]].expiresAt
              /\ \/ activeFlows'[s] # activeFlows[s]
                 \/ flows'[activeFlows[s]] # flows[activeFlows[s]]
           \/ /\ completionCache[s].comp # 0
              /\ completionCache[s].expiresAt > now
              /\ \/ completionCache'[s] # completionCache[s]
                 \/ comps'[completionCache[s].comp]
                      # comps[completionCache[s].comp]
         Others(s) == \A s2 \in Sessions \ {s} : ~Changed(s2)
     IN
     /\ Cardinality({s \in Sessions : Changed(s)}) <= 1
     /\ \A p \in Pollers :
          polls'[p].pc # polls[p].pc => Others(polls'[p].sid)
     /\ \A c \in Calls :
          calls'[c].pc # calls[c].pc => Others(calls'[c].sid)
     /\ \A s \in Sessions :
          (~cancelled[s] /\ cancelled'[s]) => Others(s)
     /\ \A s \in Sessions, c \in Calls :
          (activeFlows'[s] = c /\ activeFlows[s] # c) => Others(s)]_vars

C26_Witness ==
  \E p \in Pollers, s2 \in Sessions :
    /\ polls[p].pc \in {"done", "awaiting"}
    /\ polls[p].branch \in {"resolved", "settled"}
    /\ s2 # polls[p].sid
    /\ activeFlows[polls[p].sid] = 0
    /\ activeFlows[s2] # 0
    /\ now <= flows[activeFlows[s2]].expiresAt

\* C27: when the flow registered for a session has not expired and its
\* promise has resolved without an authentication result, the flow-status
\* check made by the next poll of that session answers error with the
\* message 'No authentication result', starts no completion, and the
\* session is no longer registered; and that message is only ever given
\* with status error and the session removed.
C27_NullResultIsError ==
  [][\A p \in Pollers :
       /\ ( /\ polls[p].pc = "idle"
            /\ polls'[p].pc # "idle"
            /\ polls'[p].branch \notin {"disabled", "cached"}
            /\ activeFlows[polls'[p].sid] # 0
            /\ now <= flows[activeFlows[polls'[p].sid]].expiresAt
            /\ flows[activeFlows[polls'[p].sid]].slot = "null" )
          => /\ polls'[p].pc = "done"
             /\ polls'[p].status = "error"
             /\ polls'[p].err = "No authentication result"
             /\ activeFlows'[polls'[p].sid] = 0
             /\ comps' = comps
             /\ completionCache'[polls'[p].sid].comp = 0
       /\ ( /\ polls[p].pc # "done"
            /\ polls'[p].pc = "done"
            /\ polls'[p].err = "No authentication result" )
          => /\ polls'[p].status = "error"
             /\ activeFlows'[polls'[p].sid] = 0]_vars

C27_Witness ==
  \E p \in Pollers :
    /\ polls[p].pc = "done"
    /\ polls[p].branch = "resolved"
    /\ polls[p].status = "error"
    /\ polls[p].err = "No authentication result"
    /\ activeFlows[polls[p].sid] = 0

\* C28: a poll that answers pending because the 100 ms timer won the race
\* consumes nothing.  Neither its step into the race nor the step in which
\* the timer wins changes the registry or any registered flow (expiresAt
\* and result slot), neither starts a completion, and neither adds or
\* replaces a completion entry: only entries that have expired go, and the
\* session of the poll has none afterwards.
C28_TimerPendingChangesNothing ==
  [][\A p \in Pollers :
       ( \/ /\ polls[p].pc = "idle"
            /\ polls'[p].pc = "racing"
         \/ /\ polls[p].pc = "racing"
            /\ polls'[p].pc = "done"
            /\ polls'[p].branch = "raced"
            /\ polls'[p].status = "pending" )
       => /\ activeFlows' = activeFlows
          /\ \A s \in Sessions :
               activeFlows[s] # 0
                 => flows'[activeFlows[s]] = flows[activeFlows[s]]
          /\ comps' = comps
          /\ \A s \in Sessions :
               \/ completionCache'[s] = completionCache[s]
               \/ /\ completionCache'[s] = NoEntry
                  /\ completionCache[s].expiresAt <= now
          /\ polls[p].pc = "racing" => completionCache' = completionCache
          /\ polls[p].pc = "idle"
               => completionCache'[polls'[p].sid] = NoEntry]_vars

C28_Witness ==
  \E p \in Pollers :
    /\ polls[p].pc = "done"
    /\ polls[p].branch = "raced"
    /\ polls[p].status = "pending"
    /\ activeFlows[polls[p].sid] # 0
    /\ flows[activeFlows[polls[p].sid]].slot = "unset"
    /\ completionCache[polls[p].sid] = NoEntry

\* C29: whenever the token step obtains a new access token by silent
\* acquisition, the account record holds that token and its expiry when
\* the step returns, so that the stored-token test of the next call passes.
C29_SilentTokenPersisted ==
  [][(chain' # chain /\ chain'.result = "msal")
     => /\ account'.access_token = "enc"
        /\ account'.expires_at > now + FIVE_MIN_BUFFER]_vars

C31_SweepLeavesPollsAlone ==
  [][/\ \A s \in Sessions :
          ( /\ activeFlows[s] # 0
            /\ activeFlows'[s] = 0
            /\ polls' = polls
            /\ ~cancelled'[s] )
          => /\ now > flows[activeFlows[s]].expiresAt
             /\ comps' = comps
             /\ completionCache' = completionCache
             /\ \A p \in Pollers :
                  polls[p].pc = "racing"
                    => flows'[polls[p].flow] = flows[polls[p].flow]
     /\ \A p \in Pollers :
          (polls[p].pc = "racing" /\ polls'[p].pc # "racing")
          => \/ /\ polls'[p].pc = "done"
                /\ polls'[p].branch = "raced"
                /\ polls'[p].status = "pending"
                /\ comps' = comps
             \/ /\ polls'[p].branch = "settled"
                /\ flows[polls[p].flow].slot = "unset"
                /\ \/ /\ polls'[p].pc = "awaiting"
                      /\ polls'[p].entry = p
                      /\ comps[p].st = "none"
                      /\ comps'[p] = [st |-> "running",
                                      flow |-> polls[p].flow]
                   \/ /\ polls'[p].pc = "done"
                      /\ polls'[p].status \in {"error", "pending"}
                      /\ comps'[p] = comps[p]]_vars

C31_Witness ==
  \E p \in Pollers :
    /\ polls[p].pc = "racing"
    /\ now > flows[polls[p].flow].expiresAt
    /\ activeFlows[polls[p].sid] = 0
    /\ ~cancelled[polls[p].sid]
    /\ \A q \in Pollers \ {p} : polls[q].pc = "idle"
    /\ \A c \in Calls : c # polls[p].flow => calls[c].pc = "idle"

\* C32: every call of pollDeviceCodeFlow returns: a poll suspended in its
\* race leaves it, whether or not the provider ever settles the flow, and
\* what the call hands back is pending, complete (the route then awaits the
\* completion), expired or error; a poll that found a completion entry
\* does not make the call.
C32_PollTerminates ==
  /\ \A p \in Pollers : (polls[p].pc = "racing") ~> (polls[p].pc # "racing")
  /\ [](\A p \in Pollers :
          /\ polls[p].pc = "done"
               => polls[p].status \in {"pending", "expired", "error"}
          /\ polls[p].pc = "awaiting"
               => polls[p].branch \in {"resolved", "settled", "cached"})

C32_Witness ==
  \E p \in Pollers :
    /\ polls[p].pc = "done"
    /\ polls[p].branch = "raced"
    /\ polls[p].status = "pending"
    /\ activeFlows[polls[p].sid] # 0
    /\ calls[activeFlows[polls[p].sid]].auth = "running"

\* C33: when an initiate call for a session id starts while an earlier call
\* for the same id is still waiting for its device-code callback, the later
\* call fails with the session-conflict error, so that at most one of the
\* two can succeed.  (The conflict error is raised only at the start of a
\* call: a call that is past the check can no longer fail with it.)
C33_OverlapConflicts ==
  [][\A c \in Calls, d \in Calls :
       ( /\ enabled
         /\ d # c
         /\ calls[d].pc = "wait"
         /\ ~calls[d].captured
         /\ calls[c].pc = "idle"
         /\ calls'[c].pc # "idle"
         /\ calls'[c].sid = calls[d].sid )
       => calls'[c].pc = "conflict"]_vars

\* C34: the result slot of a registered flow is filled only by the provider
\* completion of the initiate call that registered the flow (or by cancel):
\* when a step fills the slot of flow f with a provider outcome, the call
\* whose provider request settled, or whose settled request was wired in
\* that step, is the call that created f.
C34_FilledByOwnCompletion ==
  [][\A f \in Calls, c \in Calls :
       ( /\ flows[f].slot = "unset"
         /\ flows'[f].slot \in AuthOutcomes
         /\ \/ calls[c].auth = "running" /\ calls'[c].auth \in AuthOutcomes
            \/ calls[c].pc = "wait" /\ calls'[c].pc = "ok" )
       => c = f]_vars

\* C35: once an initiate call has failed (feature disabled, session
\* conflict or callback timeout), the registry never holds a flow created
\* by that call, under any session id.
C35_FailedInitiateLeavesNoFlow ==
  \A c \in Calls :
    calls[c].pc \in {"disabled", "conflict", "timeout"}
      => \A s \in Sessions : activeFlows[s] # c

\* C36: expiry takes precedence over a filled result slot.  A poll that
\* finds the flow of its session past its expiresAt with the promise
\* already settled answers expired, not complete or error, starts no
\* completion, and removes the flow.
C36_ExpiryBeforeOutcome ==
  [][\A p \in Pollers, s \in Sessions :
       ( /\ enabled
         /\ polls[p].pc = "idle"
         /\ polls'[p].pc # "idle"
         /\ polls'[p].sid = s
         /\ activeFlows[s] # 0
         /\ now > flows[activeFlows[s]].expiresAt
         /\ flows[activeFlows[s]].slot # "unset" )
       => /\ polls'[p].pc = "done"
          /\ polls'[p].status = "expired"
          /\ polls'[p].entry = 0
          /\ comps' = comps
          /\ completionCache'[s] = NoEntry
          /\ activeFlows'[s] = 0]_vars

C36_Witness ==
  \E p \in Pollers :
    /\ polls[p].pc = "done"
    /\ polls[p].branch = "expiredflow"
    /\ polls[p].status = "expired"
    /\ polls[p].sawFilled
    /\ activeFlows[polls[p].sid] = 0

\* C37: a failed completion is memoised.  Once a poll of a session has been
\* answered with the failure of the completion of a flow, every poll of
\* that session answered while the completion entry of that flow is in the
\* cache is answered error with the same message.
C37_FailureMemoised ==
  [][\A p \in Pollers, q \in Pollers :
       LET s == polls[p].sid
           e == completionCache[s] IN
       ( /\ polls[p].pc = "done"
         /\ polls[p].status = "error"
         /\ polls[p].err = "completion failed"
         /\ polls[q].pc # "done"
         /\ polls'[q].pc = "done"
         /\ polls'[q].sid = s
         /\ e.comp # 0
         /\ e.expiresAt > now
         /\ comps[e.comp].flow = comps[polls[p].entry].flow )
       => /\ polls'[q].status = "error"
          /\ polls'[q].err = "completion failed"]_vars

\* C38: a poll that arrives while a flow is registered for its session and
\* has not expired reports on that flow, the one most recently initiated
\* under the id: if it is answered from a completion, or awaits one, the
\* completion is of that flow, never of an earlier flow of the session.
C38_PollReportsNewestFlow ==
  [][\A p \in Pollers, s \in Sessions :
       ( /\ enabled
         /\ polls[p].pc = "idle"
         /\ polls'[p].pc # "idle"
         /\ polls'[p].sid = s
         /\ activeFlows[s] # 0
         /\ now <= flows[activeFlows[s]].expiresAt
         /\ polls'[p].entry # 0 )
       => comps'[polls'[p].entry].flow = activeFlows[s]]_vars

\* C39: the cache blob that a completion persists on the record of the
\* account holds only credentials of that account: every refresh token
\* entry of a blob written by a completion carries the account's id in its
\* key or in its home_account_id.
C39_BlobHoldsOwnCredentialsOnly ==
  [][(/\ \E k \in Pollers : comps[k].st = "running" /\ comps'[k].st # "running"
      /\ account'.RefreshToken # account.RefreshToken)
     => \A i \in DOMAIN account'.RefreshToken :
          account'.RefreshToken[i].key \/ account'.RefreshToken[i].home]_vars

====
